---- MODULE Spec2Model ----
(***************************************************************************)
(* A model of src/main.py, the Obsidian-vault to Wiki.js migration script. *)
(*                                                                         *)
(* Text is modelled at the level of characters: a Python str is a sequence *)
(* of one-character strings, so that sanitising, splitting into lines,     *)
(* regular-expression scanning and path arithmetic are computed the way    *)
(* the code computes them.                                                 *)
(***************************************************************************)
EXTENDS Integers, Sequences, FiniteSets, TLC

VARIABLES
    pc,             \* position of the scenario being run
    path,           \* fix_file_name: the argument
    sanitized,      \* fix_file_name(path)
    resanitized,    \* fix_file_name(fix_file_name(path))
    cwd,            \* the parts of the process's working directory
    doc_suffix,       \* copy_folder_recursively: folder of the current document
    target_suffix,  \* the folder of the note a wikilink names
    target_name,    \* the file name of that note
    doc_markdown,     \* the body handed to convert_wikilinks_to_markdown_links
    doc_converted,    \* the body it returned
    pieces,           \* how many pieces of text the body was typed in
    fm_text,        \* add_front_matter: original_text
    fm_name,        \* add_front_matter: original_path, the file's name
    fm_out,         \* the outcome of add_front_matter
    fm_back,        \* parse_markdown_with_front_matter of the text it returned
    vault,          \* the source tree: whether its root is a folder, its
                    \* folders and its files
    stack,          \* the calls of copy_folder_recursively in progress
    dest,           \* the files of the destination tree
    raw_text,       \* a text handed to parse_markdown_with_front_matter or
                    \* to get_extra_tags on its own
    raw_pieces,     \* how many pieces that text was typed in
    raw_parsed,     \* parse_markdown_with_front_matter(raw_text)
    raw_tags        \* get_extra_tags(raw_text)

fixVars == <<path, sanitized, resanitized>>

linkVars ==
    <<cwd, doc_suffix, target_suffix, target_name, doc_markdown, doc_converted,
      pieces>>

fmVars == <<fm_text, fm_name, fm_out, fm_back>>

runVars == <<vault, stack, dest>>

rawVars == <<raw_text, raw_pieces, raw_parsed, raw_tags>>

vars == <<pc, fixVars, linkVars, fmVars, runVars, rawVars>>

(***************************************************************************)
(* Bounds of the model.                                                    *)
(***************************************************************************)
MaxSegLen == 4
MaxDepth == 2
MaxPieces == 4
MaxBody == 3

(***************************************************************************)
(* Python str primitives.                                                  *)
(***************************************************************************)
StartsWith(s, p) ==
    /\ Len(p) <= Len(s)
    /\ SubSeq(s, 1, Len(p)) = p

EndsWith(s, p) ==
    /\ Len(p) <= Len(s)
    /\ SubSeq(s, Len(s) - Len(p) + 1, Len(s)) = p

\* s[i:] with a 1-based i
From(s, i) == SubSeq(s, i, Len(s))

\* str.find from position i (1-based); 0 when absent
RECURSIVE FindFrom(_, _, _)
FindFrom(s, p, i) ==
    IF i + Len(p) - 1 > Len(s) THEN 0
    ELSE IF SubSeq(s, i, i + Len(p) - 1) = p THEN i
    ELSE FindFrom(s, p, i + 1)

\* str.rfind of one character (1-based); 0 when absent
RECURSIVE RFindChar(_, _, _)
RFindChar(s, c, i) ==
    IF i = 0 THEN 0
    ELSE IF s[i] = c THEN i
    ELSE RFindChar(s, c, i - 1)

\* str.replace(old, new): leftmost non-overlapping occurrences
RECURSIVE Replace(_, _, _)
Replace(s, old, new) ==
    LET k == FindFrom(s, old, 1)
    IN  IF k = 0 THEN s
        ELSE SubSeq(s, 1, k - 1) \o new \o Replace(From(s, k + Len(old)), old, new)

LowerLetters ==
    <<"a", "b", "c", "d", "e", "f", "g", "h", "i", "j", "k", "l", "m",
      "n", "o", "p", "q", "r", "s", "t", "u", "v", "w", "x", "y", "z">>

UpperLetters ==
    <<"A", "B", "C", "D", "E", "F", "G", "H", "I", "J", "K", "L", "M",
      "N", "O", "P", "Q", "R", "S", "T", "U", "V", "W", "X", "Y", "Z">>

Range(f) == {f[i] : i \in DOMAIN f}

\* [a-zA-Z]
Letters == Range(LowerLetters) \cup Range(UpperLetters)

\* \w
WordChars ==
    Letters \cup {"0", "1", "2", "3", "4", "5", "6", "7", "8", "9", "_"}

\* str.lower
LowerChar(c) ==
    IF c \in Range(UpperLetters)
    THEN LowerLetters[CHOOSE i \in DOMAIN UpperLetters : UpperLetters[i] = c]
    ELSE c

Lower(s) == [i \in 1..Len(s) |-> LowerChar(s[i])]

\* str.rsplit(".", 1): <<s>> when there is no dot
RSplitDot(s) ==
    LET k == RFindChar(s, ".", Len(s))
    IN  IF k = 0 THEN <<s>> ELSE <<SubSeq(s, 1, k - 1), From(s, k + 1)>>

\* str.split(c) on one character
RECURSIVE SplitChar(_, _)
SplitChar(s, c) ==
    LET k == FindFrom(s, <<c>>, 1)
    IN  IF k = 0 THEN <<s>>
        ELSE <<SubSeq(s, 1, k - 1)>> \o SplitChar(From(s, k + 1), c)

\* sep.join(list)
RECURSIVE Join(_, _)
Join(list, sep) ==
    IF list = <<>> THEN <<>>
    ELSE IF Len(list) = 1 THEN list[1]
    ELSE list[1] \o sep \o Join(Tail(list), sep)

Last(list) == list[Len(list)]

\* the characters str.strip() and str.splitlines() treat specially
Whitespace == {" ", "\n", "\r", "\t"}

RECURSIVE LStrip(_)
LStrip(s) == IF s # <<>> /\ s[1] \in Whitespace THEN LStrip(Tail(s)) ELSE s

RECURSIVE RStrip(_)
RStrip(s) ==
    IF s # <<>> /\ s[Len(s)] \in Whitespace
    THEN RStrip(SubSeq(s, 1, Len(s) - 1)) ELSE s

Strip(s) == RStrip(LStrip(s))

\* urllib.parse.quote with its default safe="/": letters, digits and
\* "_.-~/" pass, every other character becomes its %XX escape
QuoteChar(c) ==
    CASE c = " "  -> <<"%", "2", "0">>
      [] c = "#"  -> <<"%", "2", "3">>
      [] c = "|"  -> <<"%", "7", "C">>
      [] c = "["  -> <<"%", "5", "B">>
      [] c = "]"  -> <<"%", "5", "D">>
      [] c = "\n" -> <<"%", "0", "A">>
      [] OTHER    -> <<c>>

RECURSIVE Quote(_)
Quote(s) == IF s = <<>> THEN <<>> ELSE QuoteChar(s[1]) \o Quote(Tail(s))

(***************************************************************************)
(* posixpath.                                                              *)
(***************************************************************************)
RECURSIVE RStripSlash(_)
RStripSlash(s) ==
    IF s # <<>> /\ s[Len(s)] = "/" THEN RStripSlash(SubSeq(s, 1, Len(s) - 1)) ELSE s

\* os.path.split: <<head, tail>>
PathSplit(p) ==
    LET i    == RFindChar(p, "/", Len(p))
        head == SubSeq(p, 1, i)
        tail == From(p, i + 1)
    IN  IF head # <<>> /\ (\E k \in 1..Len(head) : head[k] # "/")
        THEN <<RStripSlash(head), tail>>
        ELSE <<head, tail>>

\* os.path.splitext on a name without separators: <<root, ext>>.  Leading
\* dots of the name are not an extension.
PathSplitExt(p) ==
    LET dotIndex == RFindChar(p, ".", Len(p))
    IN  IF dotIndex > 0 /\ (\E k \in 1..(dotIndex - 1) : p[k] # ".")
        THEN <<SubSeq(p, 1, dotIndex - 1), From(p, dotIndex)>>
        ELSE <<p, <<>>>>

\* os.path.join(a, b)
PathJoin(a, b) ==
    IF StartsWith(b, <<"/">>) THEN b
    ELSE IF a = <<>> \/ EndsWith(a, <<"/">>) THEN a \o b
    ELSE a \o <<"/">> \o b

(***************************************************************************)
(* fix_file_name.                                                          *)
(***************************************************************************)
\* a plausible slip: str.replace('.', '', 1) deletes only the first dot
fix_file_name_first_dot(p) ==
    LET directory == PathSplit(p)[1]
        filename  == PathSplit(p)[2]
        name      == PathSplitExt(filename)[1]
        ext       == PathSplitExt(filename)[2]
        k         == FindFrom(name, <<".">>, 1)
        sanitized_name == IF k = 0 THEN name
                          ELSE SubSeq(name, 1, k - 1) \o From(name, k + 1)
    IN  Replace(Replace(Lower(PathJoin(directory, sanitized_name \o ext)),
                        <<" ", "-", " ">>, <<"-">>), <<" ">>, <<"-">>)

fix_file_name(p) ==
    LET directory == PathSplit(p)[1]
        filename  == PathSplit(p)[2]
        name      == PathSplitExt(filename)[1]
        ext       == PathSplitExt(filename)[2]
        sanitized_name == Replace(name, <<".">>, <<>>)
        sanitized_filename == sanitized_name \o ext
    IN  Replace(Replace(Lower(PathJoin(directory, sanitized_filename)),
                        <<" ", "-", " ">>, <<"-">>), <<" ">>, <<"-">>)

(***************************************************************************)
(* pathlib: a path is its root flag and its parts.                         *)
(***************************************************************************)
IsNamePart(x) == x # <<>> /\ x # <<".">>

\* Path(str)
PathOf(s) ==
    [root  |-> StartsWith(s, <<"/">>),
     parts |-> SelectSeq(SplitChar(s, "/"), IsNamePart)]

\* PurePath.suffix of a name: from the last dot, unless the dot is the
\* first or the last character
NameSuffix(name) ==
    LET k == RFindChar(name, ".", Len(name))
    IN  IF 1 < k /\ k < Len(name) THEN From(name, k) ELSE <<>>

\* PurePath.stem of a name
NameStem(name) == SubSeq(name, 1, Len(name) - Len(NameSuffix(name)))

\* Path.with_suffix
WithSuffix(p, suffix) ==
    LET name == Last(p.parts)
    IN  [p EXCEPT !.parts[Len(p.parts)] = NameStem(name) \o suffix]

\* Path.parent
Parent(p) ==
    IF p.parts = <<>> THEN p
    ELSE [p EXCEPT !.parts = SubSeq(p.parts, 1, Len(p.parts) - 1)]

\* Path.resolve of a path without symbolic links or "..": a relative path
\* is taken from the working directory
Resolve(p, wd) ==
    IF p.root THEN p ELSE [root |-> TRUE, parts |-> wd \o p.parts]

\* Path.relative_to without walk_up: ok is FALSE where Python raises
\* ValueError (different anchors, or other is not an ancestor)
RelativeTo(p, other) ==
    IF /\ p.root = other.root
       /\ Len(other.parts) <= Len(p.parts)
       /\ SubSeq(p.parts, 1, Len(other.parts)) = other.parts
    THEN [ok |-> TRUE,
          path |-> [root |-> FALSE, parts |-> From(p.parts, Len(other.parts) + 1)]]
    ELSE [ok |-> FALSE, path |-> [root |-> FALSE, parts |-> <<>>]]

\* Path.as_posix
AsPosix(p) ==
    IF p.root THEN <<"/">> \o Join(p.parts, <<"/">>)
    ELSE IF p.parts = <<>> THEN <<".">>
    ELSE Join(p.parts, <<"/">>)

DotDot == <<".", ".">>

\* sum(1 for part in parts if part == "..")
CountDotDot(parts) == Cardinality({i \in 1..Len(parts) : parts[i] = DotDot})

(***************************************************************************)
(* copy_folder_recursively: the paths it reads and writes.                 *)
(***************************************************************************)
\* dummy_source = "./pages"
base_source_folder == <<".", "/", "p", "a", "g", "e", "s">>

\* dummy_destination = "./pages-parsed"
base_destination_folder ==
    <<".", "/", "p", "a", "g", "e", "s", "-", "p", "a", "r", "s", "e", "d">>

source_folder(sfx) == PathJoin(base_source_folder, sfx)

destination_folder(sfx) == PathJoin(base_destination_folder, fix_file_name(sfx))

source_item_path(sfx, item_name) == PathJoin(source_folder(sfx), item_name)

destination_item_path(sfx, item_name) ==
    PathJoin(destination_folder(sfx), fix_file_name(item_name))

\* the suffix of the recursive call for a sub-directory
child_suffix(sfx, item_name) == PathJoin(sfx, item_name)

\* f.relative_to(vault_path) for the file item_name of folder sfx
VaultRelative(sfx, item_name) == PathOf(PathJoin(sfx, item_name))

(***************************************************************************)
(* The wikilink pattern                                                    *)
(*     \[\[([^\]\|#]+)(#[^\]\|]+)?(\|([^\]]+))?\]\]                          *)
(* Each class is a run that ends at a character the next element of the   *)
(* pattern needs, so the greedy match is the only one.                     *)
(***************************************************************************)
\* the index after the longest run of characters outside stop, from i
RECURSIVE RunEnd(_, _, _)
RunEnd(s, i, stop) ==
    IF i > Len(s) \/ s[i] \in stop THEN i ELSE RunEnd(s, i + 1, stop)

At(s, i) == IF i >= 1 /\ i <= Len(s) THEN s[i] ELSE "<eof>"

NoMatch == [ok |-> FALSE]

\* the match object of the pattern at position i, if it matches there
MatchWikilink(s, i) ==
    LET e1   == RunEnd(s, i + 2, {"]", "|", "#"})
        e2   == RunEnd(s, e1 + 1, {"]", "|"})
        has2 == At(s, e1) = "#" /\ e2 > e1 + 1
        p3   == IF has2 THEN e2 ELSE e1
        e4   == RunEnd(s, p3 + 1, {"]"})
        has4 == At(s, p3) = "|" /\ e4 > p3 + 1
        p5   == IF has4 THEN e4 ELSE p3
    IN  IF /\ At(s, i) = "[" /\ At(s, i + 1) = "["
           /\ e1 > i + 2
           /\ At(s, p5) = "]" /\ At(s, p5 + 1) = "]"
        THEN [ok |-> TRUE, last |-> p5 + 1,
              group0 |-> SubSeq(s, i, p5 + 1),
              group1 |-> SubSeq(s, i + 2, e1 - 1),
              has2 |-> has2, group2 |-> SubSeq(s, e1, e2 - 1),
              has4 |-> has4, group4 |-> SubSeq(s, p3 + 1, e4 - 1)]
        ELSE NoMatch

(***************************************************************************)
(* str.splitlines: a line ends at "\n", at "\r" or at "\r\n"; the          *)
(* terminators are dropped and a terminator at the end adds no line.       *)
(***************************************************************************)
RECURSIVE SplitLines(_)
SplitLines(s) ==
    IF s = <<>> THEN <<>>
    ELSE LET e == RunEnd(s, 1, {"\n", "\r"})
             n == IF At(s, e) = "\r" /\ At(s, e + 1) = "\n" THEN e + 2 ELSE e + 1
         IN  <<SubSeq(s, 1, e - 1)>> \o SplitLines(From(s, n))

NL == <<"\n">>

Dashes == <<"-", "-", "-">>

(***************************************************************************)
(* yaml.  A front matter value is a record of its kind ("str", "bool",     *)
(* "list" of strings, "none") and its value; a mapping is a function from  *)
(* keys to values.  The library's parser is modelled by the documents the  *)
(* model uses.                                                             *)
(***************************************************************************)
StrVal(chars) == [kind |-> "str", val |-> chars]

BoolVal(b) == [kind |-> "bool", val |-> b]

ListVal(items) == [kind |-> "list", val |-> items]

EmptyMap == [k \in {} |-> StrVal(<<>>)]

s_title == <<"t", "i", "t", "l", "e">>

s_tags == <<"t", "a", "g", "s">>

s_published == <<"p", "u", "b", "l", "i", "s", "h", "e", "d">>

s_course == <<"c", "o", "u", "r", "s", "e">>

s_old == <<"O", "l", "d">>

s_false == <<"f", "a", "l", "s", "e">>

s_true == <<"t", "r", "u", "e">>

s_markdown == <<"m", "a", "r", "k", "d", "o", "w", "n">>

\* the tags of the model's documents: course/x/y/z, course/x and t
tag_deep == s_course \o <<"/", "x", "/", "y", "/", "z">>

tag_course_x == s_course \o <<"/", "x">>

tag_t == <<"t">>

\* yaml.safe_load of the model's documents: what is a mapping, what is
\* another value (a scalar or a sequence), and what raises yaml.YAMLError
YamlDocs ==
    { [text |-> <<>>, result |-> "none", map |-> EmptyMap],
      [text |-> s_title \o <<":", " ">> \o s_old, result |-> "map",
       map |-> ("title" :> StrVal(s_old))],
      [text |-> s_published \o <<":", " ">> \o s_false, result |-> "map",
       map |-> ("published" :> BoolVal(FALSE))],
      [text |-> s_tags \o <<":", " ", "[", "]">>, result |-> "map",
       map |-> ("tags" :> ListVal(<<>>))],
      [text |-> s_tags \o <<":", " ", "[">> \o tag_deep \o <<"]">>, result |-> "map",
       map |-> ("tags" :> ListVal(<<tag_deep>>))],
      [text |-> s_tags \o <<":", " ", "[">> \o tag_course_x \o <<",", " ">>
                \o tag_t \o <<"]">>, result |-> "map",
       map |-> ("tags" :> ListVal(<<tag_course_x, tag_t>>))],
      [text |-> s_tags \o <<":", " ">> \o tag_t, result |-> "map",
       map |-> ("tags" :> StrVal(tag_t))],
      [text |-> <<"-", " ", "x">>, result |-> "other", map |-> EmptyMap],
      [text |-> <<"[">>, result |-> "error", map |-> EmptyMap] }

\* any other text is not a front matter the model's sources hold: it is met
\* only when a produced document is parsed again, where it loads without an
\* error and its value is not looked into
yaml_safe_load(content) ==
    IF \E d \in YamlDocs : d.text = content
    THEN CHOOSE d \in YamlDocs : d.text = content
    ELSE [text |-> content, result |-> "other", map |-> EmptyMap]

(***************************************************************************)
(* parse_markdown_with_front_matter.                                       *)
(***************************************************************************)
\* the index of the first line from i on that is "---" once stripped; 0 if
\* there is none
RECURSIVE ClosingLine(_, _)
ClosingLine(lines, i) ==
    IF i > Len(lines) THEN 0
    ELSE IF Strip(lines[i]) = Dashes THEN i
    ELSE ClosingLine(lines, i + 1)

\* is_map is FALSE when the front matter loaded as something that is no
\* mapping; markdown is the text after the front matter
parse_markdown_with_front_matter(markdown_string) ==
    LET lines == SplitLines(markdown_string)
        i     == IF Len(lines) > 0 /\ Strip(lines[1]) = Dashes
                 THEN ClosingLine(lines, 2) ELSE 0
        doc   == yaml_safe_load(Join(SubSeq(lines, 2, i - 1), NL))
        found == i > 0 /\ doc.result # "error"
        content_start_index == IF found THEN i + 1 ELSE 1
    IN  [front_matter |-> IF found /\ doc.result = "map" THEN doc.map ELSE EmptyMap,
         is_map       |-> ~(found /\ doc.result = "other"),
         markdown     |-> Join(SubSeq(lines, content_start_index, Len(lines)), NL)]

(***************************************************************************)
(* get_extra_tags: re.findall(r"[^#\w](#[a-zA-Z/]+)", markdown).           *)
(***************************************************************************)
TagChars == Letters \cup {"/"}

RECURSIVE FindTags(_, _)
FindTags(s, i) ==
    IF i > Len(s) THEN <<>>
    ELSE LET e == RunEnd(s, i + 2, {c \in Range(s) : c \notin TagChars})
         IN  IF s[i] \notin WordChars \cup {"#"} /\ At(s, i + 1) = "#" /\ e > i + 2
             THEN <<SubSeq(s, i + 1, e - 1)>> \o FindTags(s, e)
             ELSE FindTags(s, i + 1)

get_extra_tags(md) == FindTags(md, 1)

(***************************************************************************)
(* filter_tags.  The set it collects; the list it returns holds the set's  *)
(* members in the order the set's iteration gives, which is any order.     *)
(***************************************************************************)
TagSplits(t) == SplitChar(IF StartsWith(t, <<"#">>) THEN Tail(t) ELSE t, "/")

\* a plausible slip: len(splits) >= 2 drops course/x as well
filter_tags_two_deep(tags) ==
    UNION { IF TagSplits(tags[i])[1] = s_course /\ Len(TagSplits(tags[i])) >= 2
            THEN {} ELSE Range(TagSplits(tags[i])) : i \in DOMAIN tags }

filter_tags(tags) ==
    UNION { IF TagSplits(tags[i])[1] = s_course /\ Len(TagSplits(tags[i])) > 2
            THEN {} ELSE Range(TagSplits(tags[i])) : i \in DOMAIN tags }

\* [*res]: the lists that hold each member of the set once
ListsOf(S) ==
    { l \in [1..Cardinality(S) -> S] : \A x \in S : \E i \in DOMAIN l : l[i] = x }

(***************************************************************************)
(* wikilink_to_mdlink and convert_wikilinks_to_markdown_links.  note_map   *)
(* is a function from stems to vault-relative paths; current_file is the  *)
(* resolved path of the document and wd the working directory.            *)
(***************************************************************************)
\* a plausible slip: the alias defaults to the whole target, folders and all
ParseMatch_whole_target(match) ==
    LET target0 == Strip(match.group1)
        anchor0 == IF match.has2 THEN match.group2 ELSE <<>>
    IN  [alias  |-> IF match.has4 /\ match.group4 # <<>> THEN match.group4
                    ELSE target0,
         target |-> target0,
         anchor |-> anchor0]

\* target, anchor and alias of a match
ParseMatch(match) ==
    LET target0 == Strip(match.group1)
        anchor0 == IF match.has2 THEN match.group2 ELSE <<>>
        hashAt  == FindFrom(target0, <<"#">>, 1)
    IN  [alias  |-> IF match.has4 /\ match.group4 # <<>> THEN match.group4
                    ELSE Last(SplitChar(target0, "/")),
         target |-> IF hashAt > 0 THEN SubSeq(target0, 1, hashAt - 1) ELSE target0,
         anchor |-> IF hashAt > 0 THEN <<"#">> \o From(target0, hashAt + 1)
                    ELSE anchor0]

\* the key the note index is asked for: target.split("/")[-1]
LookupKey(match) == Last(SplitChar(ParseMatch(match).target, "/"))

\* the replacement for a match whose target is the indexed note target_entry
RenderLink(match, target_entry, current_file, wd) ==
    LET target_path  == WithSuffix(target_entry, <<".", "m", "d">>)
        rel          == RelativeTo(target_path, Resolve(Parent(current_file), wd))
        use_absolute == IF rel.ok THEN CountDotDot(rel.path.parts) > 1 ELSE TRUE
        link_path    == IF use_absolute
                        THEN <<"/">> \o AsPosix(WithSuffix(target_entry,
                                                           <<".", "m", "d">>))
                        ELSE AsPosix(rel.path)
        encoded_path == Quote(RSplitDot(fix_file_name(link_path))[1])
    IN  <<"[">> \o ParseMatch(match).alias \o <<"]", "(">> \o encoded_path
        \o ParseMatch(match).anchor \o <<")">>

\* a plausible slip: the index is asked for the lower-cased key
wikilink_to_mdlink_any_case(match, current_file, note_map, wd) ==
    IF Lower(LookupKey(match)) \notin DOMAIN note_map THEN match.group0
    ELSE RenderLink(match, note_map[Lower(LookupKey(match))], current_file, wd)

wikilink_to_mdlink(match, current_file, note_map, wd) ==
    IF LookupKey(match) \notin DOMAIN note_map
    THEN match.group0     \* leave wikilink as-is if target not found
    ELSE RenderLink(match, note_map[LookupKey(match)], current_file, wd)

\* re.sub(pattern, repl, markdown) from position i
RECURSIVE SubWikilinks(_, _, _, _, _)
SubWikilinks(s, i, current_file, note_map, wd) ==
    IF i > Len(s) THEN <<>>
    ELSE LET m == MatchWikilink(s, i)
         IN  IF m.ok
             THEN wikilink_to_mdlink(m, current_file, note_map, wd)
                  \o SubWikilinks(s, m.last + 1, current_file, note_map, wd)
             ELSE <<s[i]>> \o SubWikilinks(s, i + 1, current_file, note_map, wd)

convert_wikilinks_to_markdown_links(markdown, file_path, note_map, wd) ==
    SubWikilinks(markdown, 1, Resolve(file_path, wd), note_map, wd)

(***************************************************************************)
(* yaml.dump of a mapping: a line per key, the keys sorted; a list is a    *)
(* line per item, an empty list is [].  Quoting of scalars is left out.    *)
(***************************************************************************)
s_date == <<"d", "a", "t", "e">>

s_dateCreated == s_date \o <<"C", "r", "e", "a", "t", "e", "d">>

s_description == <<"d", "e", "s", "c", "r", "i", "p", "t", "i", "o", "n">>

s_editor == <<"e", "d", "i", "t", "o", "r">>

\* the keys in the order sorted() gives them, with their text
SortedKeys ==
    << <<"date", s_date>>, <<"dateCreated", s_dateCreated>>,
       <<"description", s_description>>, <<"editor", s_editor>>,
       <<"published", s_published>>, <<"tags", s_tags>>, <<"title", s_title>> >>

RECURSIVE DumpItems(_)
DumpItems(items) ==
    IF items = <<>> THEN <<>>
    ELSE NL \o <<"-", " ">> \o items[1] \o DumpItems(Tail(items))

DumpValue(v) ==
    CASE v.kind = "str"  -> <<" ">> \o v.val
      [] v.kind = "bool" -> <<" ">> \o (IF v.val THEN s_true ELSE s_false)
      [] v.kind = "list" -> IF v.val = <<>> THEN <<" ", "[", "]">>
                            ELSE DumpItems(v.val)

RECURSIVE DumpKeys(_, _)
DumpKeys(matter, i) ==
    IF i > Len(SortedKeys) THEN <<>>
    ELSE (IF SortedKeys[i][1] \in DOMAIN matter
          THEN SortedKeys[i][2] \o <<":">> \o DumpValue(matter[SortedKeys[i][1]]) \o NL
          ELSE <<>>)
         \o DumpKeys(matter, i + 1)

yaml_dump(matter) == DumpKeys(matter, 1)

(***************************************************************************)
(* add_front_matter: the set of its outcomes, one for each order in which  *)
(* the tag set may be iterated.  An outcome with ok FALSE is an exception  *)
(* raised before anything is returned.                                     *)
(***************************************************************************)
\* date_now, computed once when the module is loaded
date_now == <<"2", "0", "2", "5">>

Raised(exception) ==
    [ok |-> FALSE, error |-> exception, matter |-> EmptyMap, tags |-> <<>>,
     filtered |-> <<>>, body |-> <<>>, text |-> <<>>]

\* a plausible slip: matter.setdefault keeps a title, description and
\* published flag the source already declares
add_front_matter_setdefault(original_text, original_path, file_path, note_map, wd) ==
    LET title  == RSplitDot(original_path)[1]
        parsed == parse_markdown_with_front_matter(original_text)
        converted_link_markdown ==
            convert_wikilinks_to_markdown_links(parsed.markdown, file_path,
                                                note_map, wd)
        matter == parsed.front_matter
                  @@ ("title" :> StrVal(title)) @@ ("description" :> StrVal(title))
                  @@ ("published" :> BoolVal(TRUE))
                  @@ ("date" :> StrVal(date_now)) @@ ("editor" :> StrVal(s_markdown))
                  @@ ("dateCreated" :> StrVal(date_now))
    IN  { [ok |-> TRUE, error |-> "", matter |-> matter, tags |-> <<>>,
           filtered |-> <<>>, body |-> converted_link_markdown,
           text |-> Dashes \o NL \o yaml_dump(matter) \o Dashes \o NL \o NL
                    \o converted_link_markdown] }

add_front_matter(original_text, original_path, file_path, note_map, wd) ==
    LET title  == RSplitDot(original_path)[1]
        parsed == parse_markdown_with_front_matter(original_text)
        converted_link_markdown ==
            convert_wikilinks_to_markdown_links(parsed.markdown, file_path,
                                                note_map, wd)
        parsed_tags == get_extra_tags(converted_link_markdown)
        declared == "tags" \in DOMAIN parsed.front_matter
        tags0  == IF declared THEN parsed.front_matter["tags"] ELSE ListVal(<<>>)
        \* tags.extend(parsed_tags) changes the list the mapping holds
        tags   == tags0.val \o parsed_tags
        fixed  == ("title" :> StrVal(title)) @@ ("description" :> StrVal(title))
                  @@ ("published" :> BoolVal(TRUE))
                  @@ ("date" :> StrVal(date_now)) @@ ("editor" :> StrVal(s_markdown))
                  @@ ("dateCreated" :> StrVal(date_now))
        Matter(filtered_tags) ==
            fixed
            @@ (IF Len(filtered_tags) > 0
                THEN ("tags" :> StrVal(Join(filtered_tags, <<",", " ">>)))
                ELSE IF declared THEN ("tags" :> ListVal(tags))
                ELSE EmptyMap)
            @@ parsed.front_matter
    IN  IF ~parsed.is_map
        THEN {Raised("TypeError")}       \* matter["title"] = title
        ELSE IF tags0.kind # "list"
        THEN {Raised("AttributeError")}  \* tags.extend(parsed_tags)
        ELSE { [ok |-> TRUE, error |-> "", matter |-> Matter(filtered_tags),
                tags |-> tags, filtered |-> filtered_tags,
                body |-> converted_link_markdown,
                text |-> Dashes \o NL \o yaml_dump(Matter(filtered_tags))
                         \o Dashes \o NL \o NL \o converted_link_markdown]
               : filtered_tags \in ListsOf(filter_tags(tags)) }

(***************************************************************************)
(* Scenario 1: fix_file_name applied to a path segment, and again to its   *)
(* own result.                                                             *)
(***************************************************************************)
SegChars == {"a", "B", ".", " ", "-"}

FixIdle ==
    /\ path = <<>>
    /\ sanitized = <<>>
    /\ resanitized = <<>>

LinkIdle ==
    /\ cwd = <<>>
    /\ doc_suffix = <<>>
    /\ target_suffix = <<>>
    /\ target_name = <<>>
    /\ doc_markdown = <<>>
    /\ doc_converted = <<>>
    /\ pieces = 0

FmIdle ==
    /\ fm_text = <<>>
    /\ fm_name = <<>>
    /\ fm_out = <<>>
    /\ fm_back = <<>>

RunIdle ==
    /\ vault = <<>>
    /\ stack = <<>>
    /\ dest = <<>>

RawIdle ==
    /\ raw_text = <<>>
    /\ raw_pieces = 0
    /\ raw_parsed = <<>>
    /\ raw_tags = <<>>

FixInit ==
    /\ pc = "fix_input"
    /\ FixIdle
    /\ RawIdle
    /\ LinkIdle
    /\ FmIdle
    /\ RunIdle

\* the caller builds the segment one character at a time
FixType ==
    /\ pc = "fix_input"
    /\ Len(path) < MaxSegLen
    /\ \E c \in SegChars : path' = Append(path, c)
    /\ UNCHANGED <<pc, sanitized, resanitized, linkVars, fmVars, runVars, rawVars>>

FixCall ==
    /\ pc = "fix_input"
    /\ sanitized' = fix_file_name(path)
    /\ pc' = "fix_once"
    /\ UNCHANGED <<path, resanitized, linkVars, fmVars, runVars, rawVars>>

FixCallAgain ==
    /\ pc = "fix_once"
    /\ resanitized' = fix_file_name(sanitized)
    /\ pc' = "fix_twice"
    /\ UNCHANGED <<path, sanitized, linkVars, fmVars, runVars, rawVars>>

FixNext == FixType \/ FixCall \/ FixCallAgain

SpecFix == FixInit /\ [][FixNext]_vars

\* C9: fix_file_name is idempotent on path segments: sanitising the
\* sanitised segment gives the sanitised segment back.
C9_Idempotent == pc = "fix_twice" => resanitized = sanitized

\* a segment with an upper-case letter, a dot inside its stem and a final
\* dot went through both calls, and the first call changed it
C9_Witness ==
    /\ pc = "fix_twice"
    /\ path = <<"B", ".", "a", ".">>
    /\ sanitized = <<"b", "a", ".">>

(***************************************************************************)
(* Scenario 2: one document of the vault holds a wikilink to another note; *)
(* the two notes' folders are any folders of the vault.                    *)
(***************************************************************************)
DirNames ==
    { <<"a">>, <<"b">>, <<"c">>, <<"A", " ", "b">>, <<"a", ".", "b", ".", "c">> }

NoteNames ==
    { <<"n", ".", "m", "d">>,
      <<"N", " ", "-", " ", "B", ".", "m", "d">>,
      <<"N", ".", "a", ".", "m", "d">> }

WorkDirs == { <<>>, <<<<"w">>>> }

\* the document that holds the wikilink
doc_name == <<"m", ".", "m", "d">>

Depth(sfx) == Len(PathOf(sfx).parts)

\* note_map = {f.stem: f.relative_to(vault_path) for f in rglob("*.md")}
\* for a vault of these two notes
LinkNoteMap ==
    (NameStem(doc_name) :> VaultRelative(doc_suffix, doc_name))
    @@ (NameStem(target_name) :> VaultRelative(target_suffix, target_name))

LinkInit ==
    /\ pc = "link_layout"
    /\ FixIdle
    /\ RawIdle
    /\ FmIdle
    /\ RunIdle
    /\ cwd \in WorkDirs
    /\ target_name \in NoteNames
    /\ doc_suffix = <<>>
    /\ target_suffix = <<>>
    /\ doc_markdown = <<>>
    /\ doc_converted = <<>>
    /\ pieces = 0

\* the document lies one folder deeper
LinkEnterDoc ==
    /\ pc = "link_layout"
    /\ Depth(doc_suffix) < MaxDepth
    /\ \E d \in DirNames : doc_suffix' = child_suffix(doc_suffix, d)
    /\ UNCHANGED <<pc, fixVars, fmVars, runVars, rawVars, cwd,
                   target_suffix, target_name, doc_markdown,
                   doc_converted, pieces>>

\* the target note lies one folder deeper
LinkEnterTarget ==
    /\ pc = "link_layout"
    /\ Depth(target_suffix) < MaxDepth
    /\ \E d \in DirNames : target_suffix' = child_suffix(target_suffix, d)
    /\ UNCHANGED <<pc, fixVars, fmVars, runVars, rawVars, cwd,
                   doc_suffix, target_name, doc_markdown,
                   doc_converted, pieces>>

\* the document's body, [[<stem of the target>]], is converted
LinkConvert ==
    /\ pc = "link_layout"
    /\ doc_markdown' = <<"[", "[">> \o NameStem(target_name) \o <<"]", "]">>
    /\ doc_converted' =
          convert_wikilinks_to_markdown_links(
              doc_markdown', PathOf(source_item_path(doc_suffix, doc_name)),
              LinkNoteMap, cwd)
    /\ pc' = "linked"
    /\ UNCHANGED <<fixVars, fmVars, runVars, rawVars, cwd,
                   doc_suffix, target_suffix, target_name, pieces>>

LinkNext == LinkEnterDoc \/ LinkEnterTarget \/ LinkConvert

SpecLink == LinkInit /\ [][LinkNext]_vars

\* the path of a rendered link [alias](path)
LinkPathOf(text) ==
    SubSeq(text, FindFrom(text, <<"]", "(">>, 1) + 2, Len(text) - 1)

\* the folders of the two notes, and the steps from one to the other
DocParts == PathOf(doc_suffix).parts

TargetParts == PathOf(target_suffix).parts

CommonLen ==
    LET n == IF Len(DocParts) < Len(TargetParts) THEN Len(DocParts)
             ELSE Len(TargetParts)
        same == {k \in 0..n : SubSeq(DocParts, 1, k) = SubSeq(TargetParts, 1, k)}
    IN  CHOOSE k \in same : \A j \in same : j <= k

UpSteps == Len(DocParts) - CommonLen

\* the target relative to the document's folder, "../" for each step up
RelativeLink ==
    Join([i \in 1..UpSteps |-> DotDot] \o From(TargetParts, CommonLen + 1)
         \o <<target_name>>, <<"/">>)

\* C1: a target reachable with at most one ".." step is linked in relative
\* form, the sanitised relative path without its .md; only a target that
\* needs more steps is linked by its path from the vault root.
C1_RelativeWithinOneStep ==
    pc = "linked" =>
        IF UpSteps <= 1
        THEN LinkPathOf(doc_converted)
                = Quote(RSplitDot(fix_file_name(RelativeLink))[1])
        ELSE LinkPathOf(doc_converted)[1] = "/"

\* the inverse of Quote: what a reader of the link does with its escapes
RECURSIVE Unquote(_)
Unquote(s) ==
    IF s = <<>> THEN <<>>
    ELSE IF Len(s) >= 3 /\ SubSeq(s, 1, 3) = <<"%", "2", "0">>
         THEN <<" ">> \o Unquote(From(s, 4))
    ELSE IF Len(s) >= 3 /\ SubSeq(s, 1, 3) = <<"%", "2", "3">>
         THEN <<"#">> \o Unquote(From(s, 4))
    ELSE <<s[1]>> \o Unquote(Tail(s))

\* the parts of a path with "." dropped and each ".." taking back the part
\* before it
RECURSIVE Normalised(_, _)
Normalised(parts, done) ==
    IF parts = <<>> THEN done
    ELSE IF parts[1] = DotDot /\ done # <<>>
         THEN Normalised(Tail(parts), SubSeq(done, 1, Len(done) - 1))
    ELSE Normalised(Tail(parts), Append(done, parts[1]))

\* the destination file a link of the document addresses: .md re-appended,
\* then taken from the destination root if it starts with "/" and from the
\* document's destination folder otherwise
AddressedFile(link) ==
    LET file == Unquote(link) \o <<".", "m", "d">>
    IN  IF file[1] = "/"
        THEN Normalised(PathOf(base_destination_folder \o file).parts, <<>>)
        ELSE Normalised(PathOf(PathJoin(destination_folder(doc_suffix), file)).parts,
                        <<>>)

\* the destination file copy_folder_recursively writes the target note to
WrittenFile ==
    Normalised(PathOf(destination_item_path(target_suffix, target_name)).parts, <<>>)

\* C2: the rendered link addresses the destination file that
\* copy_folder_recursively writes the target note to, whatever the names
\* of the folders and of the note.
C2_LinkAddressesWrittenFile ==
    pc = "linked" => AddressedFile(LinkPathOf(doc_converted)) = WrittenFile

(***************************************************************************)
(* Scenario 3: the body of a document is any text; the vault holds the     *)
(* document m.md at its root and the note a/n.md.                          *)
(***************************************************************************)
WikiPieces ==
    { <<"[", "[">>, <<"[", "[", "n">>, <<"[", "[", "N">>, <<"]", "]">>, <<"]">>,
      <<"|">>, <<"#">>, <<"/">>, <<" ">>, <<"n">>, <<"N">> }

WikiInit ==
    /\ pc = "wiki_input"
    /\ FixIdle
    /\ RawIdle
    /\ FmIdle
    /\ RunIdle
    /\ cwd = <<>>
    /\ doc_suffix = <<>>
    /\ target_suffix = <<"a">>
    /\ target_name = <<"n", ".", "m", "d">>
    /\ doc_markdown = <<>>
    /\ doc_converted = <<>>
    /\ pieces = 0

\* the author types one more piece of the body
WikiType ==
    /\ pc = "wiki_input"
    /\ pieces < MaxPieces
    /\ \E t \in WikiPieces : doc_markdown' = doc_markdown \o t
    /\ pieces' = pieces + 1
    /\ UNCHANGED <<pc, fixVars, fmVars, runVars, rawVars, cwd,
                   doc_suffix, target_suffix, target_name,
                   doc_converted>>

WikiConvert ==
    /\ pc = "wiki_input"
    /\ doc_converted' =
          convert_wikilinks_to_markdown_links(
              doc_markdown, PathOf(source_item_path(doc_suffix, doc_name)),
              LinkNoteMap, cwd)
    /\ pc' = "wiki_converted"
    /\ UNCHANGED <<fixVars, fmVars, runVars, rawVars, cwd,
                   doc_suffix, target_suffix, target_name,
                   doc_markdown, pieces>>

WikiNext == WikiType \/ WikiConvert

SpecWiki == WikiInit /\ [][WikiNext]_vars

\* the wikilink tokens of a text from position i on, as re.sub finds them:
\* leftmost first, none overlapping another
RECURSIVE TokensFrom(_, _)
TokensFrom(s, i) ==
    IF i > Len(s) THEN {}
    ELSE LET m == MatchWikilink(s, i)
         IN  IF m.ok THEN {[first |-> i, match |-> m]} \cup TokensFrom(s, m.last + 1)
             ELSE TokensFrom(s, i + 1)

Convert(text) ==
    convert_wikilinks_to_markdown_links(
        text, PathOf(source_item_path(doc_suffix, doc_name)), LinkNoteMap, cwd)

Unresolved(t) == LookupKey(t.match) \notin DOMAIN LinkNoteMap

InToken(s, k) == \E t \in TokensFrom(s, 1) : t.first <= k /\ k <= t.match.last

\* C3: a wikilink token whose target's last path segment is no key of the
\* note index stands in the converted body character for character, between
\* the conversions of the text before it and of the text after it, and so
\* does every character outside the tokens; a body all of whose tokens are
\* unresolved is returned as it was.
C3_UnresolvedUntouched ==
    pc = "wiki_converted" =>
        LET s == doc_markdown
            tokens == TokensFrom(s, 1)
        IN  /\ \A t \in tokens :
                  Unresolved(t) =>
                      doc_converted =
                          Convert(SubSeq(s, 1, t.first - 1))
                          \o SubSeq(s, t.first, t.match.last)
                          \o Convert(From(s, t.match.last + 1))
            /\ \A k \in 1..Len(s) :
                  ~InToken(s, k) =>
                      doc_converted =
                          Convert(SubSeq(s, 1, k - 1)) \o <<s[k]>>
                          \o Convert(From(s, k + 1))
            /\ (\A t \in tokens : Unresolved(t)) => doc_converted = s

\* a body with text, a resolved token and an unresolved one, whose target
\* differs from an indexed stem by case only, was converted
C3_Witness ==
    /\ pc = "wiki_converted"
    /\ doc_markdown = <<"[", "[", "N", "]", "]", "[", "[", "n", "]", "]">>
                      \* [[N]][[n]]
    /\ doc_converted # doc_markdown

(***************************************************************************)
(* Scenario 4: add_front_matter on a document at the root of the vault,    *)
(* whose text is one of the model's front matters (or none) and any body,  *)
(* and parse_markdown_with_front_matter on the text it returns.  The vault *)
(* also holds the note a/n.md.                                             *)
(***************************************************************************)
FmNames ==
    { <<"m", ".", "m", "d">>, <<"N", " ", "-", " ", "B", ".", "m", "d">> }

\* a front matter block: the delimiters around the document
FrontOf(content) ==
    IF content = <<>> THEN Dashes \o NL \o Dashes \o NL
    ELSE Dashes \o NL \o content \o NL \o Dashes \o NL

FmFronts == {<<>>} \cup {FrontOf(d.text) : d \in YamlDocs}

BodyPieces ==
    { <<"a">>, NL, <<"#", "t">>,
      <<" ", "#">> \o tag_course_x, <<" ", "#">> \o tag_deep,
      <<"[", "[", "n", "]", "]">> }

FmNoteMap ==
    (NameStem(fm_name) :> VaultRelative(doc_suffix, fm_name))
    @@ (NameStem(target_name) :> VaultRelative(target_suffix, target_name))

FmInit ==
    /\ pc = "fm_input"
    /\ FixIdle
    /\ RawIdle
    /\ RunIdle
    /\ cwd = <<>>
    /\ doc_suffix = <<>>
    /\ target_suffix = <<"a">>
    /\ target_name = <<"n", ".", "m", "d">>
    /\ doc_markdown = <<>>
    /\ doc_converted = <<>>
    /\ pieces = 0
    /\ fm_text \in FmFronts
    /\ fm_name \in FmNames
    /\ fm_out = <<>>
    /\ fm_back = <<>>

\* the author types one more piece of the body
FmType ==
    /\ pc = "fm_input"
    /\ pieces < MaxBody
    /\ \E t \in BodyPieces : fm_text' = fm_text \o t
    /\ pieces' = pieces + 1
    /\ UNCHANGED <<pc, fixVars, runVars, rawVars, cwd,
                   doc_suffix, target_suffix,
                   target_name, doc_markdown, doc_converted, fm_name, fm_out,
                   fm_back>>

\* copy_folder_recursively calls add_front_matter for the file
FmAssemble ==
    /\ pc = "fm_input"
    /\ fm_out' \in add_front_matter(fm_text, fm_name,
                                    PathOf(source_item_path(doc_suffix, fm_name)),
                                    FmNoteMap, cwd)
    /\ pc' = "fm_assembled"
    /\ UNCHANGED <<fixVars, linkVars, runVars, rawVars, fm_text, fm_name, fm_back>>

\* the produced document is split again
FmSplit ==
    /\ pc = "fm_assembled"
    /\ fm_out.ok
    /\ fm_back' = parse_markdown_with_front_matter(fm_out.text)
    /\ pc' = "fm_split"
    /\ UNCHANGED <<fixVars, linkVars, runVars, rawVars, fm_text, fm_name, fm_out>>

FmNext == FmType \/ FmAssemble \/ FmSplit

SpecFM == FmInit /\ [][FmNext]_vars

Produced == pc \in {"fm_assembled", "fm_split"} /\ fm_out.ok

\* the file name without its extension
FmStem == RSplitDot(fm_name)[1]

TooDeep(t) == TagSplits(t)[1] = s_course /\ Len(TagSplits(t)) > 2

\* C6: the list filter_tags returns for the front matter's tags followed by
\* the body's inline tags holds no tag twice; every "/"-segment of a tag
\* that is not a course tag of more than two segments is in it, and
\* nothing else is: a dropped tag contributes nothing.
C6_FilterTags ==
    Produced =>
        LET tags == fm_out.tags
            kept == {i \in DOMAIN tags : ~TooDeep(tags[i])}
            res  == fm_out.filtered
        IN  /\ \A i, j \in DOMAIN res : i # j => res[i] # res[j]
            /\ \A i \in kept : \A k \in DOMAIN TagSplits(tags[i]) :
                  \E j \in DOMAIN res : res[j] = TagSplits(tags[i])[k]
            /\ \A j \in DOMAIN res :
                  \E i \in kept : \E k \in DOMAIN TagSplits(tags[i]) :
                      res[j] = TagSplits(tags[i])[k]

\* the front matter declared course/x and t, the body holds #course/x/y/z:
\* course, x and t were returned, y and z were not
C6_Witness ==
    /\ Produced
    /\ fm_out.tags = <<tag_course_x, tag_t, <<"#">> \o tag_deep>>
    /\ Range(fm_out.filtered) = {s_course, <<"x">>, <<"t">>}

\* C7: in every produced document the tags key is absent when the merged
\* tag list is empty, and is the comma-joined string of the merged tags
\* otherwise; it is never a list.
C7_TagsAbsentOrJoined ==
    Produced =>
        IF fm_out.filtered = <<>>
        THEN "tags" \notin DOMAIN fm_out.matter
        ELSE /\ "tags" \in DOMAIN fm_out.matter
             /\ fm_out.matter["tags"] = StrVal(Join(fm_out.filtered, <<",", " ">>))

\* C10: splitting the produced text again gives back the body that
\* add_front_matter put into it, character for character.
C10_RoundTrip == pc = "fm_split" => fm_back.markdown = fm_out.body

(***************************************************************************)
(* Scenario 5: a migration run, __main__ and copy_folder_recursively, over *)
(* a vault with the folders Foo and G and some of the files Foo/a.md,      *)
(* Foo/k.md, Foo.md, G/g.md and README.  A file is readable or not (open   *)
(* raises PermissionError, an OSError); Foo/k.md may hold a front matter   *)
(* whose tags are a string.  os.listdir returns the entries in any order.  *)
(***************************************************************************)
n_Foo == <<"F", "o", "o">>

n_G == <<"G">>

n_a_md == <<"a", ".", "m", "d">>

n_k_md == <<"k", ".", "m", "d">>

n_g_md == <<"g", ".", "m", "d">>

n_Foo_md == n_Foo \o <<".", "m", "d">>

n_README == <<"R", "E", "A", "D", "M", "E">>

File(dir, name, text, readable) ==
    [dir |-> dir, name |-> name, text |-> text, readable |-> readable]

\* the files a vault may hold, each or not
OptionalFiles ==
    { File(n_Foo, n_a_md, <<"a">>, TRUE),
      File(<<>>, n_Foo_md, <<"a">>, TRUE),
      File(n_G, n_g_md, <<"a">>, TRUE),
      File(<<>>, n_README, <<"a">>, TRUE) }

\* Foo/k.md: absent, sound, unreadable, or with tags that are no list
VariantsOfK ==
    { {}, {File(n_Foo, n_k_md, <<"a">>, TRUE)},
      {File(n_Foo, n_k_md, <<"a">>, FALSE)},
      {File(n_Foo, n_k_md, FrontOf(s_tags \o <<":", " ">> \o tag_t), TRUE)} }

Vaults ==
    { [root_ok |-> TRUE, dirs |-> {<<>>, n_Foo, n_G}, files |-> fs \cup k]
        : fs \in SUBSET OptionalFiles, k \in VariantsOfK }
    \cup { [root_ok |-> FALSE, dirs |-> {}, files |-> {}] }

\* os.listdir(source_folder): the names of the folder's entries
ListDir(v, sfx) ==
    {f.name : f \in {g \in v.files : g.dir = sfx}}
    \cup {PathSplit(d)[2] : d \in {e \in v.dirs : e # <<>> /\ PathSplit(e)[1] = sfx}}

IsFile(v, sfx, name) == \E f \in v.files : f.dir = sfx /\ f.name = name

IsDir(v, sfx, name) == child_suffix(sfx, name) \in v.dirs

TheFile(v, sfx, name) == CHOOSE f \in v.files : f.dir = sfx /\ f.name = name

\* note_map = {f.stem: f.relative_to(vault_path) for f in rglob("*.md")}
NoteMapOf(v) ==
    LET notes == {f \in v.files : EndsWith(f.name, <<".", "m", "d">>)}
        stems == {NameStem(f.name) : f \in notes}
    IN  [st \in stems |->
            LET f == CHOOSE g \in notes : NameStem(g.name) = st
            IN  VaultRelative(f.dir, f.name)]

\* a destination path as the parts that name the file
DestKey(p) == Normalised(PathOf(p).parts, <<>>)

\* index_file_name of the folder sfx
index_file_name(sfx) ==
    PathJoin(PathJoin(destination_folder(sfx), DotDot),
             PathSplit(destination_folder(sfx))[2] \o <<".", "m", "d">>)

Frame(sfx, listing) == [suffix |-> sfx, listing |-> listing, idx |-> 1]

Top == stack[Len(stack)]

Pop == SubSeq(stack, 1, Len(stack) - 1)

\* the frame on top moves on to its next entry
Advance == [stack EXCEPT ![Len(stack)].idx = @ + 1]

RunInit ==
    /\ pc = "run_start"
    /\ FixIdle
    /\ RawIdle
    /\ LinkIdle
    /\ FmIdle
    /\ vault \in Vaults
    /\ stack = <<>>
    /\ dest = [k \in {} |-> [kind |-> "", src |-> <<>>]]

\* __main__ calls copy_folder_recursively for the root: a root that is no
\* folder is reported and nothing is copied
CopyRoot ==
    /\ pc = "run_start"
    /\ IF vault.root_ok
       THEN /\ \E listing \in ListsOf(ListDir(vault, <<>>)) :
                  stack' = <<Frame(<<>>, listing)>>
            /\ pc' = "run_walk"
       ELSE /\ stack' = stack
            /\ pc' = "run_refused"
    /\ UNCHANGED <<fixVars, linkVars, fmVars, rawVars, vault, dest>>

HasItem == pc = "run_walk" /\ stack # <<>> /\ Top.idx <= Len(Top.listing)

Item == Top.listing[Top.idx]

\* the entry is a file whose copy goes through
CopyFile ==
    /\ HasItem
    /\ IsFile(vault, Top.suffix, Item)
    /\ LET f    == TheFile(vault, Top.suffix, Item)
           to   == DestKey(destination_item_path(Top.suffix, Item))
           kind == RSplitDot(Item)
       IN  /\ Len(kind) = 2
           /\ f.readable
           /\ kind[2] = <<"m", "d">> =>
                 \A o \in add_front_matter(
                            f.text, Item,
                            PathOf(source_item_path(Top.suffix, Item)),
                            NoteMapOf(vault), <<>>) : o.ok
           /\ dest' = (to :> [kind |-> IF kind[2] = <<"m", "d">> THEN "note"
                                       ELSE "raw",
                              src |-> PathJoin(Top.suffix, Item)]) @@ dest
    /\ stack' = Advance
    /\ UNCHANGED <<pc, fixVars, linkVars, fmVars, rawVars, vault>>

\* open() of the source file raises an OSError: the except clause of the
\* call in progress takes it, and the call returns
CopyFileOSError ==
    /\ HasItem
    /\ IsFile(vault, Top.suffix, Item)
    /\ Len(RSplitDot(Item)) = 2
    /\ ~TheFile(vault, Top.suffix, Item).readable
    /\ stack' = Pop
    /\ pc' = IF Len(stack) = 1 THEN "run_done" ELSE pc
    /\ UNCHANGED <<fixVars, linkVars, fmVars, rawVars, vault, dest>>

\* the name has no "." (IndexError at rsplit), or add_front_matter raises:
\* no except clause takes it and the run ends with a traceback.  The
\* destination file of a Markdown file is already open and stays empty.
CopyFileRaises ==
    /\ HasItem
    /\ IsFile(vault, Top.suffix, Item)
    /\ LET f    == TheFile(vault, Top.suffix, Item)
           to   == DestKey(destination_item_path(Top.suffix, Item))
           kind == RSplitDot(Item)
       IN  \/ /\ Len(kind) = 1
              /\ dest' = dest
           \/ /\ Len(kind) = 2
              /\ f.readable
              /\ kind[2] = <<"m", "d">>
              /\ \E o \in add_front_matter(
                             f.text, Item,
                             PathOf(source_item_path(Top.suffix, Item)),
                             NoteMapOf(vault), <<>>) : ~o.ok
              /\ dest' = (to :> [kind |-> "empty",
                                 src |-> PathJoin(Top.suffix, Item)]) @@ dest
    /\ pc' = "run_aborted"
    /\ UNCHANGED <<fixVars, linkVars, fmVars, rawVars, vault, stack>>

\* the entry is a folder: the recursive call
CopyDir ==
    /\ HasItem
    /\ IsDir(vault, Top.suffix, Item)
    /\ \E listing \in ListsOf(ListDir(vault, child_suffix(Top.suffix, Item))) :
          stack' = Append(Advance,
                          Frame(child_suffix(Top.suffix, Item), listing))
    /\ UNCHANGED <<pc, fixVars, linkVars, fmVars, rawVars, vault, dest>>

\* the loop is over: the index of a folder that is not the root and has
\* entries is written, and the call returns
CopyIndex ==
    /\ pc = "run_walk" /\ stack # <<>> /\ Top.idx > Len(Top.listing)
    /\ dest' = IF Top.suffix # <<>> /\ Cardinality(ListDir(vault, Top.suffix)) > 0
               THEN (DestKey(index_file_name(Top.suffix))
                        :> [kind |-> "index", src |-> Top.suffix]) @@ dest
               ELSE dest
    /\ stack' = Pop
    /\ pc' = IF Len(stack) = 1 THEN "run_done" ELSE pc
    /\ UNCHANGED <<fixVars, linkVars, fmVars, rawVars, vault>>

RunNext ==
    CopyRoot \/ CopyFile \/ CopyFileOSError \/ CopyFileRaises \/ CopyDir \/ CopyIndex

SpecRun == RunInit /\ [][RunNext]_vars

RunOver == pc \in {"run_done", "run_aborted"}

\* a file whose own copy fails: unreadable, without an extension, or a
\* Markdown file that add_front_matter raises on
Fails(f) ==
    \/ ~f.readable
    \/ Len(RSplitDot(f.name)) = 1
    \/ /\ EndsWith(f.name, <<".", "m", "d">>)
       /\ \E o \in add_front_matter(f.text, f.name,
                                    PathOf(source_item_path(f.dir, f.name)),
                                    NoteMapOf(vault), <<>>) : ~o.ok

Copied(f) ==
    \E k \in DOMAIN dest :
        dest[k].kind \in {"note", "raw"} /\ dest[k].src = PathJoin(f.dir, f.name)

\* the note Foo.md and the index of the folder Foo have one destination
Collides(f) == f.dir = <<>> /\ f.name = n_Foo_md

\* C5: a file whose copy or transformation fails is the only file the run
\* skips: with a valid root the run is never aborted, and once it is over
\* every file whose own copy does not fail has been copied.
C5_FailureSkipsOneFile ==
    /\ pc # "run_aborted"
    /\ RunOver => \A f \in vault.files : ~Fails(f) /\ ~Collides(f) => Copied(f)

\* the place the index of a folder belongs: beside the folder's mirror
IndexPlace(sfx) ==
    LET mirror == DestKey(destination_folder(sfx))
    IN  SubSeq(mirror, 1, Len(mirror) - 1)
        \o <<fix_file_name(PathSplit(sfx)[2]) \o <<".", "m", "d">>>>

HoldsIndex(k) == k \in DOMAIN dest /\ dest[k].kind = "index"

\* C8: after a run in which no file fails, every folder but the root that
\* has an entry has its index document beside its mirror, and the root and
\* the empty folders have none, whatever the order of the listings and
\* also when the parent holds a note named like the folder.
C8_IndexPerFolder ==
    pc = "run_done" /\ (\A f \in vault.files : ~Fails(f)) =>
        \A d \in vault.dirs :
            HoldsIndex(IndexPlace(d))
                <=> (d # <<>> /\ ListDir(vault, d) # {})

(***************************************************************************)
(* Scenario 6: the body of a document is typed from wikilink parts: an     *)
(* opening with a target, an anchor, an alias, a closing.  The vault holds *)
(* the document m.md at its root and one note in the folder a.             *)
(***************************************************************************)
\* the note of the folder a
alias_note == <<"N", " ", "-", " ", "B", ".", "m", "d">>

\* the parts a body is typed from, for a note of the given stem
AliasPieces(stem) ==
    { <<"[", "[">> \o stem, <<"[", "[", "x", "/">> \o stem,
      <<"[", "[", " ">> \o stem \o <<" ">>, <<"[", "[", "q">>,
      <<"#", "S">>, <<"#", "S", " ", "t">>, <<"|", "A">>, <<"|", "a", "/", "b">>,
      <<"]", "]">>, <<" ">> }

AliasInit ==
    /\ pc = "alias_input"
    /\ FixIdle
    /\ RawIdle
    /\ FmIdle
    /\ RunIdle
    /\ cwd = <<>>
    /\ doc_suffix = <<>>
    /\ target_suffix = <<"a">>
    /\ target_name = alias_note
    /\ doc_markdown = <<>>
    /\ doc_converted = <<>>
    /\ pieces = 0

\* the author types one more part of the body
AliasType ==
    /\ pc = "alias_input"
    /\ pieces < MaxPieces
    /\ \E t \in AliasPieces(NameStem(target_name)) :
           doc_markdown' = doc_markdown \o t
    /\ pieces' = pieces + 1
    /\ UNCHANGED <<pc, fixVars, fmVars, runVars, rawVars, cwd, doc_suffix,
                   target_suffix, target_name, doc_converted>>

AliasConvert ==
    /\ pc = "alias_input"
    /\ doc_converted' =
          convert_wikilinks_to_markdown_links(
              doc_markdown, PathOf(source_item_path(doc_suffix, doc_name)),
              LinkNoteMap, cwd)
    /\ pc' = "alias_converted"
    /\ UNCHANGED <<fixVars, fmVars, runVars, rawVars, cwd,
                   doc_suffix, target_suffix,
                   target_name, doc_markdown, pieces>>

AliasNext == AliasType \/ AliasConvert

SpecAlias == AliasInit /\ [][AliasNext]_vars

\* the parts of a token as its text shows them: [[target#anchor|alias]],
\* the target trimmed, the anchor with its #
TokenParts(tok) ==
    LET inner == SubSeq(tok, 3, Len(tok) - 2)
        bar   == FindFrom(inner, <<"|">>, 1)
        left  == IF bar > 0 THEN SubSeq(inner, 1, bar - 1) ELSE inner
        hash  == FindFrom(left, <<"#">>, 1)
    IN  [target |-> Strip(IF hash > 0 THEN SubSeq(left, 1, hash - 1) ELSE left),
         anchor |-> IF hash > 0 THEN From(left, hash) ELSE <<>>,
         has_alias |-> bar > 0,
         alias  |-> IF bar > 0 THEN From(inner, bar + 1) ELSE <<>>]

TokenText(s, t) == SubSeq(s, t.first, t.match.last)

\* the last /-separated segment of a token's target
TargetStem(tok) == Last(SplitChar(TokenParts(tok).target, "/"))

\* the encoded path to an indexed note: what the plain link [[stem]] of the
\* same document is given between its parentheses
PathTo(stem) ==
    LET plain == Convert(<<"[", "[">> \o stem \o <<"]", "]">>)
    IN  SubSeq(plain, Len(stem) + 4, Len(plain) - 1)

\* [alias](path#anchor) for a token
ExpectedLink(tok) ==
    LET parts == TokenParts(tok)
    IN  <<"[">>
        \o (IF parts.has_alias THEN parts.alias ELSE TargetStem(tok))
        \o <<"]", "(">> \o PathTo(TargetStem(tok)) \o parts.anchor \o <<")">>

\* C11: a wikilink token whose target stem is in the note index is replaced
\* by [alias](path#anchor): the display text is the alias after | when one
\* is given and the last /-segment of the target otherwise, the path is the
\* encoded path to the note, and an anchor #... follows it unchanged.
C11_AliasAndAnchor ==
    pc = "alias_converted" =>
        \A t \in TokensFrom(doc_markdown, 1) :
            TargetStem(TokenText(doc_markdown, t)) \in DOMAIN LinkNoteMap =>
                doc_converted =
                    Convert(SubSeq(doc_markdown, 1, t.first - 1))
                    \o ExpectedLink(TokenText(doc_markdown, t))
                    \o Convert(From(doc_markdown, t.match.last + 1))

\* the link [[N - B#S|A]], with an anchor and an alias, was converted to
\* [A](/a/n-b#S)
C11_Witness ==
    /\ pc = "alias_converted"
    /\ doc_markdown = <<"[", "[", "N", " ", "-", " ", "B", "#", "S", "|", "A",
                        "]", "]">>
    /\ doc_converted = <<"[", "A", "]", "(", "/", "a", "/", "n", "-", "b",
                         "#", "S", ")">>

\* the link [[x/N - B]], with a folder in its target and no alias, was
\* converted to [N - B](/a/n-b)
C11_WitnessDefaultAlias ==
    /\ pc = "alias_converted"
    /\ doc_markdown = <<"[", "[", "x", "/", "N", " ", "-", " ", "B", "]", "]">>
    /\ doc_converted = <<"[", "N", " ", "-", " ", "B", "]", "(", "/", "a", "/",
                         "n", "-", "b", ")">>

(***************************************************************************)
(* Scenario 7: parse_markdown_with_front_matter on any text typed from     *)
(* delimiter lines, front matter lines, body text and line terminators.    *)
(***************************************************************************)
ParsePieces ==
    { Dashes \o NL, Dashes, <<"[">> \o NL, s_title \o <<":", " ">> \o s_old \o NL,
      <<"a">>, NL, <<"\r", "\n">> }

ParseInit ==
    /\ pc = "parse_input"
    /\ FixIdle
    /\ LinkIdle
    /\ FmIdle
    /\ RunIdle
    /\ RawIdle

\* one more piece of the text
ParseType ==
    /\ pc = "parse_input"
    /\ raw_pieces < MaxPieces
    /\ \E t \in ParsePieces : raw_text' = raw_text \o t
    /\ raw_pieces' = raw_pieces + 1
    /\ UNCHANGED <<pc, fixVars, linkVars, fmVars, runVars, raw_parsed, raw_tags>>

ParseSplit ==
    /\ pc = "parse_input"
    /\ raw_parsed' = parse_markdown_with_front_matter(raw_text)
    /\ pc' = "parsed"
    /\ UNCHANGED <<fixVars, linkVars, fmVars, runVars, raw_text, raw_pieces,
                   raw_tags>>

ParseNext == ParseType \/ ParseSplit

SpecParse == ParseInit /\ [][ParseNext]_vars

\* the text after the first n lines, their terminators included
RECURSIVE AfterLines(_, _)
AfterLines(s, n) ==
    IF n = 0 \/ s = <<>> THEN s
    ELSE LET e == RunEnd(s, 1, {"\n", "\r"})
             k == IF At(s, e) = "\r" /\ At(s, e + 1) = "\n" THEN e + 2 ELSE e + 1
         IN  AfterLines(From(s, k), n - 1)

HasOpening(s) == SplitLines(s) # <<>> /\ Strip(SplitLines(s)[1]) = Dashes

\* the line of the closing delimiter; 0 if there is none
Closing(s) == IF HasOpening(s) THEN ClosingLine(SplitLines(s), 2) ELSE 0

\* the block between the delimiters
Block(s) == Join(SubSeq(SplitLines(s), 2, Closing(s) - 1), NL)

BlockFails(s) == Closing(s) > 0 /\ yaml_safe_load(Block(s)).result = "error"

\* C12: without an opening delimiter line, without a closing one, or with
\* a block that fails to parse, the metadata is empty and the body is the
\* text as it was, every character of it; an empty block gives empty
\* metadata and the text after the closing delimiter line as the body.
C12_FailsSoft ==
    pc = "parsed" =>
        /\ (~HasOpening(raw_text) \/ Closing(raw_text) = 0 \/ BlockFails(raw_text))
               => /\ raw_parsed.front_matter = EmptyMap
                  /\ raw_parsed.markdown = raw_text
        /\ (HasOpening(raw_text) /\ Closing(raw_text) = 2)
               => /\ raw_parsed.front_matter = EmptyMap
                  /\ raw_parsed.markdown = AfterLines(raw_text, 2)

\* what does hold: in those cases the metadata is empty and the body has
\* the lines of the text (or of the text after the delimiter), joined by
\* "\n", the final terminator dropped
C12_LinesKept ==
    pc = "parsed" =>
        /\ (~HasOpening(raw_text) \/ Closing(raw_text) = 0 \/ BlockFails(raw_text))
               => /\ raw_parsed.front_matter = EmptyMap
                  /\ raw_parsed.markdown = Join(SplitLines(raw_text), NL)
        /\ (HasOpening(raw_text) /\ Closing(raw_text) = 2)
               => /\ raw_parsed.front_matter = EmptyMap
                  /\ raw_parsed.markdown
                         = Join(SplitLines(AfterLines(raw_text, 2)), NL)

(***************************************************************************)
(* Scenario 8: get_extra_tags on any text typed from #, letters, a digit,  *)
(* /, a space and a line end.                                              *)
(***************************************************************************)
TagPieces == { <<"#">>, <<"t">>, <<"1">>, <<"/">>, <<" ">>, NL }

TagsInit ==
    /\ pc = "tags_input"
    /\ FixIdle
    /\ LinkIdle
    /\ FmIdle
    /\ RunIdle
    /\ RawIdle

TagsType ==
    /\ pc = "tags_input"
    /\ raw_pieces < MaxPieces
    /\ \E t \in TagPieces : raw_text' = raw_text \o t
    /\ raw_pieces' = raw_pieces + 1
    /\ UNCHANGED <<pc, fixVars, linkVars, fmVars, runVars, raw_parsed, raw_tags>>

TagsScan ==
    /\ pc = "tags_input"
    /\ raw_tags' = get_extra_tags(raw_text)
    /\ pc' = "tags_found"
    /\ UNCHANGED <<fixVars, linkVars, fmVars, runVars, raw_text, raw_pieces,
                   raw_parsed>>

TagsNext == TagsType \/ TagsScan

SpecTags == TagsInit /\ [][TagsNext]_vars

\* word characters and /
TokenChars == WordChars \cup {"/"}

\* the hashtag tokens of a text from position k on: a # at the start of
\* the text or after a character that is no word character and no #,
\* with the whole run of word and / characters that follows it
RECURSIVE HashtagTokens(_, _)
HashtagTokens(s, k) ==
    IF k > Len(s) THEN <<>>
    ELSE LET e == RunEnd(s, k + 1, {c \in Range(s) : c \notin TokenChars})
         IN  IF /\ s[k] = "#"
                /\ (k = 1 \/ s[k - 1] \notin WordChars \cup {"#"})
                /\ e > k + 1
             THEN <<SubSeq(s, k, e - 1)>> \o HashtagTokens(s, e)
             ELSE HashtagTokens(s, k + 1)

\* C13: get_extra_tags returns exactly the hashtag tokens of the text, in
\* their order: a heading's # and a doubled ## give none.
C13_HashtagTokens ==
    pc = "tags_found" => raw_tags = HashtagTokens(raw_text, 1)

====
